---------------------------- MODULE Spec2Model ----------------------------
(***************************************************************************)
(* Request lifecycle of the two video-to-audio services:                   *)
(*   api.py  (FastAPI): POST /convert, GET /health, GET /                  *)
(*   app.py  (Flask)  : POST /extract-audio                                *)
(* Strings that the code inspects character by character (filenames,       *)
(* formats, tokens, paths) are sequences of one-character strings.         *)
(* The media library is a capability whose outcome is chosen               *)
(* nondeterministically among the outcomes the handlers distinguish.       *)
(***************************************************************************)
EXTENDS Integers, Sequences, FiniteSets, TLC

VARIABLES req, fs

vars == <<req, fs>>

(* ------------------------------ bounds --------------------------------- *)

\* number of requests that may be in flight at the same time
NumRequests == 2

Requests == 1..NumRequests

(* --------------------------- string helpers ---------------------------- *)

UpperCase == <<"A","B","C","D","E","F","G","H","I","J","K","L","M",
               "N","O","P","Q","R","S","T","U","V","W","X","Y","Z">>
LowerCase == <<"a","b","c","d","e","f","g","h","i","j","k","l","m",
               "n","o","p","q","r","s","t","u","v","w","x","y","z">>

\* str.lower() on one character
LowerChar(c) ==
    IF \E i \in DOMAIN UpperCase : UpperCase[i] = c
    THEN LowerCase[CHOOSE i \in DOMAIN UpperCase : UpperCase[i] = c]
    ELSE c

\* str.lower()
Lower(s) == [i \in DOMAIN s |-> LowerChar(s[i])]

\* c in s
Contains(s, c) == \E i \in DOMAIN s : s[i] = c

\* s.rfind(c), 1-based, 0 when absent
LastIndexOf(s, c) ==
    IF Contains(s, c)
    THEN CHOOSE i \in DOMAIN s : s[i] = c /\ \A j \in DOMAIN s : s[j] = c => j <= i
    ELSE 0

\* s.rsplit(c, 1)[1] for a string that contains c
AfterLast(s, c) == SubSeq(s, LastIndexOf(s, c) + 1, Len(s))

\* characters that str.isspace() accepts, among those the inputs use
Whitespace == {" ", "\t", "\n"}

\* variant: the name is used as declared
KeepSpaces(s) == s

\* s.replace(" ", "_")
ReplaceSpaces(s) == [i \in DOMAIN s |-> IF s[i] = " " THEN "_" ELSE s[i]]

\* os.path.splitext(p): the extension starts at the last dot of the last
\* path component, leading dots of that component do not count
SplitextRoot(p) ==
    LET sepIndex == LastIndexOf(p, "/")
        dotIndex == LastIndexOf(p, ".")
    IN  IF dotIndex > sepIndex
           /\ \E k \in (sepIndex + 1)..(dotIndex - 1) : p[k] # "."
        THEN SubSeq(p, 1, dotIndex - 1)
        ELSE p

\* os.path.join(folder, name) for a relative name
PathJoin(folder, name) == folder \o <<"/">> \o name

(* ------------------------ api.py configuration ------------------------- *)

UPLOAD_FOLDER == <<"u","p","l","o","a","d","s">>
OUTPUT_FOLDER == <<"o","u","t","p","u","t","s">>

ALLOWED_EXTENSIONS ==
    { <<"m","p","4">>, <<"a","v","i">>, <<"m","o","v">>,
      <<"m","k","v">>, <<"w","e","b","m">> }

\* the list the handler tests format.lower() against
OUTPUT_FORMATS ==
    { <<"m","p","3">>, <<"w","a","v">>, <<"o","g","g">>, <<"a","a","c">> }

\* variant: any name with a dot passes
allowed_file_any_extension(filename) == Contains(filename, ".")

allowed_file(filename) ==
    /\ Contains(filename, ".")
    /\ Lower(AfterLast(filename, ".")) \in ALLOWED_EXTENSIONS

(* ------------------------------ inputs --------------------------------- *)

\* declared filenames of the uploads: "", "a <TAB>.MP4", "a.txt", "mp4"
Filenames ==
    { <<>>,
      <<"a"," ","\t",".","M","P","4">>,
      <<"a",".","t","x","t">>,
      <<"m","p","4">> }

\* requested formats: "WAV" (supported, in upper case) and "flac"
Formats ==
    { <<"W","A","V">>, <<"f","l","a","c">> }

Digits == <<"1","2","3","4","5","6","7","8","9">>

\* values str(uuid.uuid4()) may take: strings of one fixed length
Uuids == { <<"f", Digits[i]>> : i \in Requests }

(* ------------------------------ routing -------------------------------- *)

\* routes of api.py in registration order.  The decorator app.get("/health")
\* is followed by the decorator app.get("/") and then by the definition of
\* welcome: both decorate welcome, the inner one ("/") is registered first.
\* health_check carries no decorator.
ApiRoutes ==
    << [method |-> "POST", path |-> "/convert", endpoint |-> "convert_video_to_audio"],
       [method |-> "GET",  path |-> "/",        endpoint |-> "welcome"],
       [method |-> "GET",  path |-> "/health",  endpoint |-> "welcome"] >>

\* the endpoint of the first route matching method and path
Dispatch(routes, method, path) ==
    LET hits == { i \in DOMAIN routes :
                    routes[i].method = method /\ routes[i].path = path }
    IN  IF hits = {} THEN "not_found"
        ELSE routes[CHOOSE i \in hits : \A j \in hits : i <= j].endpoint

welcome == [message |-> "Welcome to the Video to Audio Conversion API! Use /convert to extract audio from videos."]

health_check == [status |-> "healthy"]

\* the value an endpoint function of api.py returns
EndpointBody(endpoint) ==
    IF endpoint = "health_check" THEN health_check ELSE welcome

ApiCalls == { <<"POST", "/convert">>, <<"GET", "/health">>, <<"GET", "/">> }

(* --------------------------- request state ----------------------------- *)

NoBody == [none |-> TRUE]

NewRequest ==
    [ pc            |-> "idle",
      method        |-> "",
      path          |-> "",
      has_file      |-> FALSE,
      file_filename |-> <<>>,    \* file.filename as declared by the client
      format        |-> <<>>,
      unique_id     |-> <<>>,
      filename      |-> <<>>,    \* the handler's local, sanitized name
      base_filename |-> <<>>,
      video_path    |-> <<>>,
      audio_path    |-> <<>>,
      success       |-> FALSE,
      message       |-> "",
      extract_calls |-> 0,       \* invocations of the extraction capability
      status        |-> 0,
      error         |-> "",
      handler       |-> "",
      body          |-> NoBody ]

\* tokens already handed out
UsedIds == { req[r].unique_id : r \in Requests } \ { <<>> }

Exists(path) == path \in DOMAIN fs

\* fs after writing content at path (creating or replacing the file)
WriteFile(path, content) ==
    [p \in DOMAIN fs \cup {path} |-> IF p = path THEN content ELSE fs[p]]

\* fs after os.remove(path)
RemoveFile(path) == [p \in DOMAIN fs \ {path} |-> fs[p]]

Init ==
    /\ req = [r \in Requests |-> NewRequest]
    /\ fs = << >>

(* ---------------------- api.py: POST /convert -------------------------- *)

\* variant: any non-empty format passes
FormatSupportedAny(format) == format # <<>>

\* format.lower() in ['mp3', 'wav', 'ogg', 'aac']
FormatSupported(format) == Lower(format) \in OUTPUT_FORMATS

\* variant: the scratch path is built from the filename alone
VideoPathNoToken(unique_id, filename) == PathJoin(UPLOAD_FOLDER, filename)

\* os.path.join(UPLOAD_FOLDER, f"{unique_id}_{filename}")
VideoPath(unique_id, filename) ==
    PathJoin(UPLOAD_FOLDER, unique_id \o <<"_">> \o filename)

\* os.path.join(OUTPUT_FOLDER, f"{unique_id}_{base_filename}.{format}")
AudioPath(unique_id, base_filename, format) ==
    PathJoin(OUTPUT_FOLDER, unique_id \o <<"_">> \o base_filename \o <<".">> \o format)

\* raise HTTPException(status_code, detail): the request ends with an error
Raise(r, status_code, error) ==
    req' = [req EXCEPT ![r].pc = "done", ![r].status = status_code,
                       ![r].error = error]

\* a request arrives; requests are numbered in their order of arrival
Receive(r) ==
    /\ req[r].pc = "idle"
    /\ \A q \in Requests : q < r => req[q].pc # "idle"
    /\ \E call \in ApiCalls :
         IF call[1] = "POST"
         THEN \E fn \in Filenames, fmt \in Formats :
                req' = [req EXCEPT ![r].pc = "received", ![r].method = call[1],
                                   ![r].path = call[2], ![r].has_file = TRUE,
                                   ![r].file_filename = fn, ![r].format = fmt]
         ELSE   req' = [req EXCEPT ![r].pc = "received", ![r].method = call[1],
                                   ![r].path = call[2]]
    /\ UNCHANGED fs

\* GET / and GET /health: the routed endpoint function returns its body
HandleGet(r) ==
    /\ req[r].pc = "received"
    /\ req[r].method = "GET"
    /\ LET endpoint == Dispatch(ApiRoutes, req[r].method, req[r].path)
       IN  req' = [req EXCEPT ![r].pc = "done", ![r].status = 200,
                              ![r].handler = endpoint,
                              ![r].body = EndpointBody(endpoint)]
    /\ UNCHANGED fs

IsConvert(r) ==
    Dispatch(ApiRoutes, req[r].method, req[r].path) = "convert_video_to_audio"

\* "Check if the format is supported"
CheckFormat(r) ==
    /\ req[r].pc = "received"
    /\ IsConvert(r)
    /\ IF ~FormatSupported(req[r].format)
       THEN Raise(r, 400, "UnsupportedFormat")
       ELSE req' = [req EXCEPT ![r].pc = "format_ok",
                               ![r].handler = "convert_video_to_audio"]
    /\ UNCHANGED fs

\* "Check if the file format is allowed"
CheckFilename(r) ==
    /\ req[r].pc = "format_ok"
    /\ IF req[r].file_filename = <<>> \/ ~allowed_file(req[r].file_filename)
       THEN Raise(r, 400, "InvalidInputFormat")
       ELSE req' = [req EXCEPT ![r].pc = "validated"]
    /\ UNCHANGED fs

\* "Generate unique filenames": uuid4 yields a token no request holds
GenerateNames(r) ==
    /\ req[r].pc = "validated"
    /\ \E unique_id \in Uuids \ UsedIds :
         LET filename      == ReplaceSpaces(req[r].file_filename)
             base_filename == SplitextRoot(filename)
         IN  req' = [req EXCEPT
                 ![r].pc = "named",
                 ![r].unique_id = unique_id,
                 ![r].filename = filename,
                 ![r].base_filename = base_filename,
                 ![r].video_path = VideoPath(unique_id, filename),
                 ![r].audio_path = AudioPath(unique_id, base_filename, req[r].format)]
    /\ UNCHANGED fs

\* content = await file.read(): returns the body or raises
ReadUpload(r) ==
    /\ req[r].pc = "named"
    /\ \/ req' = [req EXCEPT ![r].pc = "read"]
       \/ Raise(r, 500, "UploadPersistFailure")
    /\ UNCHANGED fs

\* open(video_path, "wb"): creates or truncates the file, or raises
OpenScratch(r) ==
    /\ req[r].pc = "read"
    /\ \/ /\ req' = [req EXCEPT ![r].pc = "opened"]
          /\ fs' = WriteFile(req[r].video_path,
                             [kind |-> "upload", by |-> r, full |-> FALSE])
       \/ /\ Raise(r, 500, "UploadPersistFailure")
          /\ UNCHANGED fs

\* f.write(content) and the close of the with block: completes or raises
\* with the file left as it is
WriteScratch(r) ==
    /\ req[r].pc = "opened"
    /\ \/ /\ req' = [req EXCEPT ![r].pc = "persisted"]
          /\ fs' = WriteFile(req[r].video_path,
                             [kind |-> "upload", by |-> r, full |-> TRUE])
       \/ /\ Raise(r, 500, "UploadPersistFailure")
          /\ UNCHANGED fs

\* outcomes of the media library on an existing input
MediaOutcomes == {"ok", "no_audio", "open_error", "write_error"}

\* extract_audio_moviepy(video_path, audio_path) -> (success, message);
\* every exception of the library is caught and turned into a message
ExtractMoviepy(r) ==
    /\ req[r].pc = "persisted"
    /\ IF ~Exists(req[r].video_path)
       THEN /\ req' = [req EXCEPT ![r].pc = "extracted", ![r].success = FALSE,
                           ![r].message = "Error: Video file not found",
                           ![r].extract_calls = @ + 1]
            /\ UNCHANGED fs
       ELSE \E outcome \in MediaOutcomes :
            LET src == fs[req[r].video_path].by
                audio(complete) == [kind |-> "audio", by |-> r, src |-> src,
                                    complete |-> complete]
            IN  CASE outcome = "ok" ->
                       /\ req' = [req EXCEPT ![r].pc = "extracted",
                               ![r].success = TRUE,
                               ![r].message = "Audio extraction successful!",
                               ![r].extract_calls = @ + 1]
                       /\ fs' = WriteFile(req[r].audio_path, audio(TRUE))
                  [] outcome = "no_audio" ->
                       /\ req' = [req EXCEPT ![r].pc = "extracted",
                               ![r].success = FALSE,
                               ![r].message = "Error: No audio track found",
                               ![r].extract_calls = @ + 1]
                       /\ UNCHANGED fs
                  [] outcome = "open_error" ->
                       /\ req' = [req EXCEPT ![r].pc = "extracted",
                               ![r].success = FALSE,
                               ![r].message = "An error occurred during audio extraction",
                               ![r].extract_calls = @ + 1]
                       /\ UNCHANGED fs
                  [] outcome = "write_error" ->
                       /\ req' = [req EXCEPT ![r].pc = "extracted",
                               ![r].success = FALSE,
                               ![r].message = "An error occurred during audio extraction",
                               ![r].extract_calls = @ + 1]
                       /\ fs' = WriteFile(req[r].audio_path, audio(FALSE))

\* variant: the scratch file is removed on the success path only
CleanupOnSuccess(r) ==
    /\ req[r].pc = "extracted"
    /\ req' = [req EXCEPT ![r].pc = "cleaned"]
    /\ fs' = IF req[r].success /\ Exists(req[r].video_path)
             THEN RemoveFile(req[r].video_path)
             ELSE fs

\* "Clean up video file after processing"
Cleanup(r) ==
    /\ req[r].pc = "extracted"
    /\ req' = [req EXCEPT ![r].pc = "cleaned"]
    /\ fs' = IF Exists(req[r].video_path) THEN RemoveFile(req[r].video_path)
             ELSE fs

\* the file a FileResponse for path sends
Served(path) == IF Exists(path) THEN fs[path] ELSE [missing |-> TRUE]

\* the ConversionError a failure message of the capability stands for
ErrorOf(message) ==
    CASE message = "Error: Video file not found" -> "InputNotFound"
      [] message = "Error: No audio track found" -> "NoAudioTrack"
      [] OTHER -> "ExtractionFailed"

\* variant: the artifact is returned whenever the output file exists
RespondIfOutputExists(r) ==
    /\ req[r].pc = "cleaned"
    /\ IF Exists(req[r].audio_path)
       THEN req' = [req EXCEPT ![r].pc = "done", ![r].status = 200,
                               ![r].body = Served(req[r].audio_path)]
       ELSE Raise(r, 500, ErrorOf(req[r].message))
    /\ UNCHANGED fs

\* return FileResponse(...) if success, else raise HTTPException(500, message)
Respond(r) ==
    /\ req[r].pc = "cleaned"
    /\ IF req[r].success
       THEN req' = [req EXCEPT ![r].pc = "done", ![r].status = 200,
                               ![r].body = Served(req[r].audio_path)]
       ELSE Raise(r, 500, ErrorOf(req[r].message))
    /\ UNCHANGED fs

\* Requests are served concurrently (several workers, or one event loop that
\* switches at the await): every interleaving of the steps of different
\* requests is allowed.  The extraction capability is one step.
Next ==
    \E r \in Requests :
        \/ Receive(r)
        \/ HandleGet(r)
        \/ CheckFormat(r)
        \/ CheckFilename(r)
        \/ GenerateNames(r)
        \/ ReadUpload(r)
        \/ OpenScratch(r)
        \/ WriteScratch(r)
        \/ ExtractMoviepy(r)
        \/ Cleanup(r)
        \/ Respond(r)

Spec == Init /\ [][Next]_vars

(* -------------------- app.py: POST /extract-audio ---------------------- *)

UPLOAD_DIR == <<"u","p","l","o","a","d","s">>
AUDIO_DIR  == <<"a","u","d","i","o","_","o","u","t","p","u","t","s">>

\* characters werkzeug's secure_filename keeps: [A-Za-z0-9_.-]
IsSafeChar(c) ==
    \/ \E i \in DOMAIN UpperCase : UpperCase[i] = c
    \/ \E i \in DOMAIN LowerCase : LowerCase[i] = c
    \/ c \in {"0","1","2","3","4","5","6","7","8","9","_",".","-"}

\* "_".join(s.split()) with path separators counted as blanks, followed by
\* the removal of the characters that are not safe
RECURSIVE JoinWords(_, _)
JoinWords(s, i) ==
    IF i > Len(s) THEN <<>>
    ELSE LET blank(k) == s[k] \in Whitespace \cup {"/"}
         IN  IF blank(i)
             THEN IF /\ \E j \in 1..(i - 1) : ~blank(j)
                     /\ \E j \in (i + 1)..Len(s) : ~blank(j)
                     /\ ~blank(i - 1)
                  THEN <<"_">> \o JoinWords(s, i + 1)
                  ELSE JoinWords(s, i + 1)
             ELSE IF IsSafeChar(s[i])
                  THEN <<s[i]>> \o JoinWords(s, i + 1)
                  ELSE JoinWords(s, i + 1)

\* s.strip("._")
RECURSIVE StripDotsUnderscores(_)
StripDotsUnderscores(s) ==
    IF s = <<>> THEN s
    ELSE IF Head(s) \in {".", "_"} THEN StripDotsUnderscores(Tail(s))
    ELSE IF s[Len(s)] \in {".", "_"}
         THEN StripDotsUnderscores(SubSeq(s, 1, Len(s) - 1))
    ELSE s

\* werkzeug.utils.secure_filename
secure_filename(filename) == StripDotsUnderscores(JoinWords(filename, 1))

\* os.path.join(UPLOAD_DIR, filename)
AppVideoPath(filename) == PathJoin(UPLOAD_DIR, filename)

\* os.path.join(AUDIO_DIR, f"{os.path.splitext(filename)[0]}.{output_format}")
AppAudioPath(filename, output_format) ==
    PathJoin(AUDIO_DIR, SplitextRoot(filename) \o <<".">> \o output_format)

\* return jsonify(body), status
Reply(r, status, body) ==
    req' = [req EXCEPT ![r].pc = "done", ![r].status = status, ![r].body = body]

\* a POST /extract-audio request arrives, with or without a part named file
AppReceive(r) ==
    /\ req[r].pc = "idle"
    /\ \A q \in Requests : q < r => req[q].pc # "idle"
    /\ \/ \E fn \in Filenames, fmt \in Formats :
            req' = [req EXCEPT ![r].pc = "app_received", ![r].method = "POST",
                               ![r].path = "/extract-audio",
                               ![r].handler = "extract_audio_api",
                               ![r].has_file = TRUE,
                               ![r].file_filename = fn, ![r].format = fmt]
       \/   req' = [req EXCEPT ![r].pc = "app_received", ![r].method = "POST",
                               ![r].path = "/extract-audio",
                               ![r].handler = "extract_audio_api"]
    /\ UNCHANGED fs

\* the two checks on the upload, then the names of the two files
AppValidate(r) ==
    /\ req[r].pc = "app_received"
    /\ IF ~req[r].has_file
       THEN Reply(r, 400, [error |-> "No file provided"])
       ELSE IF req[r].file_filename = <<>>
       THEN Reply(r, 400, [error |-> "No selected file"])
       ELSE LET filename == secure_filename(req[r].file_filename)
            IN  req' = [req EXCEPT
                    ![r].pc = "app_named",
                    ![r].filename = filename,
                    ![r].base_filename = SplitextRoot(filename),
                    ![r].video_path = AppVideoPath(filename),
                    ![r].audio_path = AppAudioPath(filename, req[r].format)]
    /\ UNCHANGED fs

\* file.save(video_path): writes the upload, or raises out of the handler
\* (Flask answers 500) with the file absent or partly written
AppSave(r) ==
    /\ req[r].pc = "app_named"
    /\ \/ /\ req' = [req EXCEPT ![r].pc = "app_saved"]
          /\ fs' = WriteFile(req[r].video_path,
                             [kind |-> "upload", by |-> r, full |-> TRUE])
       \/ /\ Reply(r, 500, [error |-> "Internal Server Error"])
          /\ \/ UNCHANGED fs
             \/ fs' = WriteFile(req[r].video_path,
                                [kind |-> "upload", by |-> r, full |-> FALSE])

\* extract_audio(video_path, audio_path) -> bool
AppExtract(r) ==
    /\ req[r].pc = "app_saved"
    /\ IF ~Exists(req[r].video_path)
       THEN /\ req' = [req EXCEPT ![r].pc = "app_extracted", ![r].success = FALSE,
                                  ![r].extract_calls = @ + 1]
            /\ UNCHANGED fs
       ELSE \E outcome \in MediaOutcomes :
            LET audio(complete) == [kind |-> "audio", by |-> r,
                                    src |-> fs[req[r].video_path].by,
                                    complete |-> complete]
            IN  /\ req' = [req EXCEPT ![r].pc = "app_extracted",
                                      ![r].success = (outcome = "ok"),
                                      ![r].extract_calls = @ + 1]
                /\ fs' = CASE outcome = "ok" ->
                                WriteFile(req[r].audio_path, audio(TRUE))
                           [] outcome = "write_error" ->
                                WriteFile(req[r].audio_path, audio(FALSE))
                           [] OTHER -> fs

\* the JSON answer of extract_audio_api
AppRespond(r) ==
    /\ req[r].pc = "app_extracted"
    /\ IF req[r].success
       THEN Reply(r, 200, [message |-> "Audio extracted successfully",
                           audio_file |-> req[r].audio_path])
       ELSE Reply(r, 500, [error |-> "Failed to extract audio"])
    /\ UNCHANGED fs

NextApp ==
    \E r \in Requests :
        \/ AppReceive(r)
        \/ AppValidate(r)
        \/ AppSave(r)
        \/ AppExtract(r)
        \/ AppRespond(r)

SpecApp == Init /\ [][NextApp]_vars

(* ------------------------------ properties ----------------------------- *)

\* output formats and input extensions as the interface names them
NamedFormats    == { <<"m","p","3">>, <<"w","a","v">>, <<"o","g","g">>, <<"a","a","c">> }
NamedExtensions == { <<"m","p","4">>, <<"a","v","i">>, <<"m","o","v">>,
                     <<"m","k","v">>, <<"w","e","b","m">> }

ConvertRequests == { r \in Requests : req[r].pc # "idle" /\ req[r].path = "/convert" }
ExtractRequests == { r \in Requests : req[r].pc # "idle" /\ req[r].path = "/extract-audio" }

\* files on disk whose content request r wrote
FilesWrittenBy(r) == { p \in DOMAIN fs : fs[p].by = r }

\* the substring after the last '.', empty when there is no '.'
ExtensionOf(name) == IF Contains(name, ".") THEN AfterLast(name, ".") ELSE <<>>

BadFormat(r)   == Lower(req[r].format) \notin NamedFormats
BadFilename(r) == \/ req[r].file_filename = <<>>
                  \/ Lower(ExtensionOf(req[r].file_filename)) \notin NamedExtensions

\* C1: a POST /convert request whose format is, case-insensitively, none of
\* mp3, wav, ogg, aac ends with status 400 and the error UnsupportedFormat
\* whatever its filename is; it never gets past the format check, is given no
\* token or path, writes no file and never invokes the extraction capability.
C1_UnsupportedFormatRejected ==
    \A r \in ConvertRequests :
        BadFormat(r) =>
            /\ req[r].pc \in {"received", "done"}
            /\ req[r].pc = "done" =>
                   req[r].status = 400 /\ req[r].error = "UnsupportedFormat"
            /\ req[r].unique_id = <<>> /\ req[r].video_path = <<>>
            /\ FilesWrittenBy(r) = {}
            /\ req[r].extract_calls = 0

\* a request with an unsupported format and an invalid filename was answered
C1_Witness ==
    \E r \in ConvertRequests :
        /\ req[r].pc = "done" /\ req[r].status = 400
        /\ BadFormat(r) /\ BadFilename(r)

\* C2: a POST /convert request with a supported format whose filename is
\* empty or whose extension is none of mp4, avi, mov, mkv, webm ends with
\* status 400; no token or scratch path is created, no file is written and
\* the extraction capability is never invoked.
C2_BadFilenameRejected ==
    \A r \in ConvertRequests :
        (~BadFormat(r) /\ BadFilename(r)) =>
            /\ req[r].pc \in {"received", "format_ok", "done"}
            /\ req[r].pc = "done" =>
                   req[r].status = 400 /\ req[r].error = "InvalidInputFormat"
            /\ req[r].unique_id = <<>> /\ req[r].video_path = <<>>
            /\ FilesWrittenBy(r) = {}
            /\ req[r].extract_calls = 0

\* a request with a supported format and the filename "a.txt" was answered
C2_Witness ==
    \E r \in ConvertRequests :
        /\ req[r].pc = "done" /\ req[r].status = 400
        /\ ~BadFormat(r)
        /\ req[r].file_filename = <<"a",".","t","x","t">>

\* C3: once a POST /convert request that reached the extraction attempt has
\* its response, its scratch upload file does not exist, whatever the
\* extraction reported.
C3_ScratchRemovedAfterExtraction ==
    \A r \in ConvertRequests :
        (req[r].pc = "done" /\ req[r].extract_calls > 0) =>
            /\ ~Exists(req[r].video_path)
            /\ \A p \in FilesWrittenBy(r) : fs[p].kind # "upload"

\* one request was answered after a successful extraction and another after
\* an extraction that failed while writing its output
C3_Witness ==
    \E r, q \in ConvertRequests :
        /\ req[r].pc = "done" /\ req[r].status = 200 /\ req[r].extract_calls = 1
        /\ req[q].pc = "done" /\ req[q].error = "ExtractionFailed"
        /\ \E p \in FilesWrittenBy(q) : fs[p].kind = "audio" /\ ~fs[p].complete

UploadOf(r, full) == [kind |-> "upload", by |-> r, full |-> full]
AudioOf(r)        == [kind |-> "audio", by |-> r, src |-> r, complete |-> TRUE]

\* C4: concurrent POST /convert requests, also with the same filename and
\* format, have different scratch and output paths; from the moment a request
\* opens its scratch file to its cleanup the file at its scratch path is the
\* one it wrote, the output of a successful extraction stays the one it
\* wrote from its own upload, and that file is the artifact it returns.
C4_NoCrossRequestInterference ==
    /\ \A r, q \in ConvertRequests :
         (r # q /\ req[r].unique_id # <<>> /\ req[q].unique_id # <<>>) =>
             /\ req[r].video_path # req[q].video_path
             /\ req[r].audio_path # req[q].audio_path
    /\ \A r \in ConvertRequests :
         /\ req[r].pc \in {"named", "read"} =>
                ~Exists(req[r].video_path) /\ ~Exists(req[r].audio_path)
         /\ req[r].pc = "opened" =>
                Exists(req[r].video_path) /\ fs[req[r].video_path] = UploadOf(r, FALSE)
         /\ req[r].pc \in {"persisted", "extracted"} =>
                Exists(req[r].video_path) /\ fs[req[r].video_path] = UploadOf(r, TRUE)
         /\ (req[r].pc \in {"extracted", "cleaned", "done"} /\ req[r].success) =>
                Exists(req[r].audio_path) /\ fs[req[r].audio_path] = AudioOf(r)
         /\ (req[r].pc = "done" /\ req[r].status = 200) => req[r].body = AudioOf(r)
         /\ req[r].unique_id # <<>> =>
                \A p \in {req[r].video_path, req[r].audio_path} \cap DOMAIN fs :
                    fs[p].by = r

\* two requests with the same filename and format are in flight together,
\* one with its upload persisted, the other with its extraction finished
C4_Witness ==
    \E r, q \in ConvertRequests :
        /\ r # q
        /\ req[r].file_filename = req[q].file_filename
        /\ req[r].format = req[q].format
        /\ req[r].pc = "persisted"
        /\ req[q].pc = "extracted" /\ req[q].success

\* position of a request in Received, Validated, Persisted, Extracting,
\* terminal
RankOf(pc) ==
    CASE pc \in {"idle"}                                  -> 0
      [] pc \in {"received", "format_ok"}                 -> 1
      [] pc \in {"validated", "named", "read", "opened"}  -> 2
      [] pc = "persisted"                                 -> 3
      [] pc \in {"extracted", "cleaned"}                  -> 4
      [] OTHER                                            -> 5

C9_State ==
    \A r \in ConvertRequests :
        /\ req[r].extract_calls <= 1
        /\ req[r].extract_calls = 1 => req[r].pc \in {"extracted", "cleaned", "done"}
        /\ req[r].pc = "persisted" =>
               /\ ~BadFormat(r) /\ ~BadFilename(r)
               /\ Exists(req[r].video_path)
               /\ fs[req[r].video_path] = UploadOf(r, TRUE)
        /\ req[r].pc = "done" =>
               /\ req[r].status \in {200, 400, 500}
               /\ (req[r].status = 200) <=> (req[r].extract_calls = 1 /\ req[r].success)
               /\ (req[r].status = 200) <=> (req[r].error = "")
               /\ req[r].status = 200 => req[r].body = AudioOf(r)
               /\ req[r].status # 200 => req[r].body = NoBody

C9_Step ==
    \A r \in Requests :
        (req[r].path = "/convert" \/ req'[r].path = "/convert") =>
            \* a terminal state is never left
            /\ req[r].pc = "done" => req'[r] = req[r]
            \* the order of the phases, failure being possible from each
            /\ RankOf(req'[r].pc) >= RankOf(req[r].pc)
            /\ \/ RankOf(req'[r].pc) <= RankOf(req[r].pc) + 1
               \/ req'[r].pc = "done" /\ req'[r].status # 200
            \* extraction is invoked from Persisted only
            /\ req'[r].extract_calls # req[r].extract_calls =>
                   /\ req[r].pc = "persisted"
                   /\ req'[r].extract_calls = req[r].extract_calls + 1
            \* cleanup lies between the extraction and the response
            /\ (req[r].pc # "done" /\ req'[r].pc = "done" /\ req[r].extract_calls = 1) =>
                   req[r].pc = "cleaned" /\ ~Exists(req[r].video_path)
            /\ (req[r].video_path # <<>> /\ Exists(req[r].video_path)
                  /\ req[r].video_path \notin DOMAIN fs') =>
                   req[r].pc = "extracted" /\ req'[r].pc = "cleaned"

\* C9: a POST /convert request moves through Received, Validated, Persisted,
\* Extracting to Succeeded or Failed in this order; the extraction capability
\* is invoked at most once, only with both validations passed and the upload
\* fully persisted; the scratch file is removed after the extraction and
\* before the response; the request ends with 200 and its artifact exactly
\* when the extraction reported success, otherwise with an error and no
\* artifact; a terminal state is never left.
C9_Lifecycle == [](C9_State) /\ [][C9_Step]_vars

\* one request succeeded and another failed for want of an audio track, each
\* after one extraction
C9_Witness ==
    \E r, q \in ConvertRequests :
        /\ req[r].pc = "done" /\ req[r].status = 200 /\ req[r].extract_calls = 1
        /\ req[q].pc = "done" /\ req[q].status = 500 /\ req[q].extract_calls = 1
        /\ req[q].error = "NoAudioTrack"

\* C10 as stated: the scratch path and the output path of an accepted request
\* contain no whitespace character of any kind.
C10_NoWhitespaceInPaths ==
    \A r \in ConvertRequests :
        req[r].unique_id # <<>> =>
            /\ \A i \in DOMAIN req[r].video_path : req[r].video_path[i] \notin Whitespace
            /\ \A i \in DOMAIN req[r].audio_path : req[r].audio_path[i] \notin Whitespace

\* C10 amended: every space character of an accepted filename is replaced by
\* an underscore and every other character is kept, so the scratch path and
\* the output path contain no space character.
C10_NoSpaceInPaths ==
    \A r \in ConvertRequests :
        req[r].unique_id # <<>> =>
            /\ ~Contains(req[r].video_path, " ")
            /\ ~Contains(req[r].audio_path, " ")
            /\ Len(req[r].filename) = Len(req[r].file_filename)
            /\ \A i \in DOMAIN req[r].filename :
                   req[r].filename[i] =
                       IF req[r].file_filename[i] = " " THEN "_"
                       ELSE req[r].file_filename[i]

\* the upload of a request whose filename has a space is on disk at its
\* scratch path
C10_Witness ==
    \E r \in ConvertRequests :
        /\ Contains(req[r].file_filename, " ")
        /\ req[r].pc = "persisted"
        /\ Exists(req[r].video_path)

\* C8 as stated: no POST /convert request that ended with an error has a
\* scratch file left in the upload directory.
C8_NoScratchLeftOnFailure ==
    \A r \in ConvertRequests :
        (req[r].pc = "done" /\ req[r].status # 200) =>
            /\ \A p \in FilesWrittenBy(r) : fs[p].kind # "upload"
            /\ req[r].video_path # <<>> => ~Exists(req[r].video_path)

\* C6 as stated: GET /health is answered 200 {"status": "healthy"} by
\* health_check and GET / is answered 200 {"message": <welcome text>} by
\* welcome.
C6_HealthAndWelcome ==
    \A r \in Requests :
        (req[r].pc = "done" /\ req[r].method = "GET") =>
            /\ req[r].status = 200
            /\ req[r].path = "/health" =>
                   req[r].handler = "health_check" /\ req[r].body = [status |-> "healthy"]
            /\ req[r].path = "/" =>
                   req[r].handler = "welcome" /\ DOMAIN req[r].body = {"message"}

\* C5 as stated: the scratch file and the output file of a POST
\* /extract-audio request are never written by another request.
C5_ExtractFilesNotShared ==
    \A r \in ExtractRequests :
        /\ req[r].pc \in {"app_saved", "app_extracted"} =>
               Exists(req[r].video_path) /\ fs[req[r].video_path].by = r
        /\ (req[r].pc \in {"app_extracted", "done"} /\ req[r].success) =>
               Exists(req[r].audio_path) /\ fs[req[r].audio_path].by = r

\* C7 as stated: a POST /extract-audio request that saved its upload has no
\* scratch file left once it is answered, with 200 or with 500.
C7_ExtractScratchRemoved ==
    \A r \in ExtractRequests :
        (req[r].pc = "done" /\ req[r].extract_calls > 0) =>
            ~Exists(req[r].video_path)

=============================================================================
